---- MODULE Spec2Model ----
(***************************************************************************)
(* mkdocs-smoke-test (src/src/main.rs).                                    *)
(*                                                                         *)
(* Two state machines over one set of variables:                           *)
(*   ScanSpec  read_the_docs, one step per line of the document;           *)
(*   MainSpec  main from the start of the directory walk, and the tasks it *)
(*             spawns (run_tests), one step per suspension point.          *)
(*             MainFairSpec is MainSpec under a fair scheduler.            *)
(* A line of text is a sequence of one-character strings; "~" stands for   *)
(* the backquote character.                                                *)
(***************************************************************************)
EXTENDS Integers, Sequences, FiniteSets, Bags, TLC

VARIABLES
    \* ---- read_the_docs
    doc,                 \* the lines the reader has yielded so far
    header,              \* [String; 4]
    codes,               \* Vec<TestCase>
    buffer,              \* Vec<String>
    line_start,          \* usize
    in_code_block,
    in_test_code_block,
    is_specified_lang,
    scan_pc,             \* "reading" | "returned" | "io_error" | "panicked"
    \* ---- main and its tasks
    walk,                \* the .md entries of the directory walk, in walk order
    entry,               \* 1-based index of the entry main is at
    main_pc,             \* where main is
    cases,               \* Vec<TestCase> of the current entry
    job_queue,           \* the JoinHandles of the current entry: one task per case
    joined,              \* how many handles of job_queue main has awaited
    reports,             \* main's `reports`
    stdout,              \* what println! has written: a bag of outcomes
    started,             \* the child processes started: <<entry, case, compiler, step>>
    exited,              \* those that have exited: <<entry, case, compiler, step, success>>
    settings             \* Settings (config.toml)

scanVars == <<doc, header, codes, buffer, line_start, in_code_block,
              in_test_code_block, is_specified_lang, scan_pc>>
mainVars == <<walk, entry, main_pc, cases, job_queue, joined, reports, stdout, started,
              exited, settings>>
vars == <<scanVars, mainVars>>

----------------------------------------------------------------------------
(* Bounds *)

\* documents of up to MaxLines lines over Lines, and of up to MaxCoreLines
\* lines over CoreLines
MaxLines == 5
MaxCoreLines == 7
\* directory walks of up to MaxDocs .md entries, with up to MaxCases test
\* cases in all
MaxDocs == 2
MaxCases == 3

----------------------------------------------------------------------------
(* Text *)

Fence == <<"~", "~", "~">>

\* Settings (config.toml): language = "c", dogear = "/t"
language == <<"c">>
dogear == <<"/", "t">>

\* Settings.compilers (config.toml): a compiler is the path of its executable,
\* a sequence of components. Two lists: one compiler, found by name; two
\* compilers, installations of one executable name (they share a file stem).
CompilerLists ==
    {<< <<"clang++">> >>,
     << <<"usr", "g++">>, <<"opt", "g++">> >>}

\* main.rs 15-21, 27-30, 250: the Settings main loads into INSTANCE_
SettingsOf(list) == [language |-> language, compilers |-> list, dogear |-> dogear]

\* The lines a document is made of.
TaggedFenceLine == <<"~", "~", "~", "c", "p">>
PlainFenceLine == <<"~", "~", "~">>
TextLine == <<"x">>
H1a == <<"#", "a">>
H1b == <<"#", " ", "b">>
H2c == <<"#", "#", "c">>
H5e == <<"#", "#", "#", "#", "#", "e">>

Lines == {TaggedFenceLine, PlainFenceLine, dogear, TextLine, H1a, H1b, H2c, H5e}
CoreLines == {TaggedFenceLine, PlainFenceLine, dogear, TextLine}

InBounds(d) ==
    \/ Len(d) <= MaxLines
    \/ Len(d) <= MaxCoreLines /\ \A i \in 1..Len(d) : d[i] \in CoreLines

\* str::starts_with
StartsWith(s, p) == Len(s) >= Len(p) /\ SubSeq(s, 1, Len(p)) = p

\* str::trim_start_matches(ch)
RECURSIVE TrimStartMatches(_, _)
TrimStartMatches(s, ch) ==
    IF s # <<>> /\ Head(s) = ch THEN TrimStartMatches(Tail(s), ch) ELSE s

RECURSIVE TrimEndMatches(_, _)
TrimEndMatches(s, ch) ==
    IF s # <<>> /\ s[Len(s)] = ch
    THEN TrimEndMatches(SubSeq(s, 1, Len(s) - 1), ch)
    ELSE s

\* str::trim_matches(ch)
TrimMatches(s, ch) == TrimEndMatches(TrimStartMatches(s, ch), ch)

\* [String]::join(sep)
RECURSIVE Join(_, _)
Join(ss, sep) ==
    IF ss = <<>> THEN <<>>
    ELSE IF Len(ss) = 1 THEN ss[1]
    ELSE ss[1] \o sep \o Join(Tail(ss), sep)

\* Iterator::filter(|h| !h.is_empty())
RECURSIVE FilterNonEmpty(_)
FilterNonEmpty(ss) ==
    IF ss = <<>> THEN <<>>
    ELSE IF ss[1] = <<>> THEN FilterNonEmpty(Tail(ss))
    ELSE <<ss[1]>> \o FilterNonEmpty(Tail(ss))

\* format!("{:?}", Vec<&str>): ["a", "b"]
FormatDebug(ss) ==
    <<"[">> \o Join([i \in 1..Len(ss) |-> <<"\"">> \o ss[i] \o <<"\"">>], <<",", " ">>)
            \o <<"]">>

\* main.rs 53-60: the header field of a TestCase
FormatHeader(h) ==
    LET kept == FilterNonEmpty(h)
    IN  FormatDebug([i \in 1..Len(kept) |-> TrimMatches(kept[i], " ")])

----------------------------------------------------------------------------
(* read_the_docs: the body of the loop, on a record of the locals *)

ScanInit(path) ==
    [path |-> path,
     header |-> <<<<>>, <<>>, <<>>, <<>>>>,
     codes |-> <<>>,
     buffer |-> <<>>,
     line_start |-> 0,
     in_code_block |-> FALSE,
     in_test_code_block |-> FALSE,
     is_specified_lang |-> FALSE,
     panicked |-> FALSE]

lang_code == Fence \o language

\* main.rs 51-64
NewTestCase(s, num) ==
    [path |-> s.path,
     header |-> FormatHeader(s.header),
     start |-> s.line_start,
     end |-> num,
     code |-> Join(s.buffer, <<"\n">>)]

\* CloseFence without `buffer.clear()`
CloseFence_KeepsBuffer(s, num) ==
    LET pushed == IF s.in_test_code_block
                  THEN [s EXCEPT !.codes = Append(@, NewTestCase(s, num))]
                  ELSE s
    IN  [pushed EXCEPT !.is_specified_lang = FALSE,
                       !.in_test_code_block = FALSE]

\* main.rs 50-68: a fence line while in_code_block
CloseFence(s, num) ==
    LET pushed == IF s.in_test_code_block
                  THEN [s EXCEPT !.codes = Append(@, NewTestCase(s, num)),
                                 !.buffer = <<>>]
                  ELSE s
    IN  [pushed EXCEPT !.is_specified_lang = FALSE,
                       !.in_test_code_block = FALSE]

\* OpenFence without `line_start = num`
OpenFence_NoLineStart(s, num, line) ==
    [s EXCEPT !.is_specified_lang = StartsWith(line, lang_code)]

\* main.rs 70-71: a fence line while not in_code_block
OpenFence(s, num, line) ==
    [s EXCEPT !.is_specified_lang = StartsWith(line, lang_code),
              !.line_start = num]

\* main.rs 77-79: the 0-based index into header
HeaderIndex(line) == Len(line) - Len(TrimStartMatches(line, "#")) - 1

\* IsHeaderLine without `!in_code_block`
IsHeaderLine_InFenceToo(s, line) == StartsWith(line, <<"#">>)

\* main.rs 76
IsHeaderLine(s, line) == ~s.in_code_block /\ StartsWith(line, <<"#">>)

\* ReadHeader with nested headings: a heading clears the slots of the deeper levels
ReadHeader_ClearsDeeper(s, line) ==
    IF IsHeaderLine(s, line)
    THEN IF HeaderIndex(line) < 4
         THEN [s EXCEPT !.header =
                  [L \in 1..4 |->
                      IF L = HeaderIndex(line) + 1 THEN TrimStartMatches(line, "#")
                      ELSE IF L > HeaderIndex(line) + 1 THEN <<>>
                      ELSE s.header[L]]]
         ELSE [s EXCEPT !.panicked = TRUE]
    ELSE s

\* main.rs 76-80; header is [String; 4]: an index of 4 or more panics
ReadHeader(s, line) ==
    IF IsHeaderLine(s, line)
    THEN IF HeaderIndex(line) < 4
         THEN [s EXCEPT !.header[HeaderIndex(line) + 1] = TrimStartMatches(line, "#")]
         ELSE [s EXCEPT !.panicked = TRUE]
    ELSE s

\* SeesDogear without `is_specified_lang`
SeesDogear_AnyFence(s, line) == line = dogear

\* main.rs 83
SeesDogear(s, line) == s.is_specified_lang /\ line = dogear

\* ReadCode that falls through to the push on the sentinel line
ReadCode_PushesDogear(s, line) ==
    IF s.in_code_block
    THEN IF ~s.in_test_code_block /\ ~SeesDogear(s, line)
         THEN s
         ELSE [s EXCEPT !.in_test_code_block = TRUE, !.buffer = Append(@, line)]
    ELSE s

\* main.rs 81-87
ReadCode(s, line) ==
    IF s.in_code_block
    THEN IF ~s.in_test_code_block
         THEN [s EXCEPT !.in_test_code_block = SeesDogear(s, line)]
         ELSE [s EXCEPT !.buffer = Append(@, line)]
    ELSE s

\* main.rs 48-88: one iteration of the loop, line `num` (0-based)
ScanLine(s, num, line) ==
    IF StartsWith(line, Fence)
    THEN LET t == IF s.in_code_block THEN CloseFence(s, num) ELSE OpenFence(s, num, line)
         IN  [t EXCEPT !.in_code_block = ~s.in_code_block]
    ELSE LET h == ReadHeader(s, line)
         IN  IF h.panicked THEN h ELSE ReadCode(h, line)

\* main.rs 46-90 on a whole document
RECURSIVE ScanFrom(_, _, _)
ScanFrom(s, num, lines) ==
    IF lines = <<>> \/ s.panicked THEN s
    ELSE ScanFrom(ScanLine(s, num, Head(lines)), num + 1, Tail(lines))

ReadTheDocs(path, lines) == ScanFrom(ScanInit(path), 0, lines)

----------------------------------------------------------------------------
(* ScanSpec: read_the_docs line by line *)

ScanPath == "doc.md"

ScanLocals ==
    [path |-> ScanPath, header |-> header, codes |-> codes, buffer |-> buffer,
     line_start |-> line_start, in_code_block |-> in_code_block,
     in_test_code_block |-> in_test_code_block,
     is_specified_lang |-> is_specified_lang, panicked |-> FALSE]

SetScanLocals(s) ==
    /\ header' = s.header
    /\ codes' = s.codes
    /\ buffer' = s.buffer
    /\ line_start' = s.line_start
    /\ in_code_block' = s.in_code_block
    /\ in_test_code_block' = s.in_test_code_block
    /\ is_specified_lang' = s.is_specified_lang

MainIdle ==
    /\ walk = <<>>
    /\ entry = 1
    /\ main_pc = "idle"
    /\ cases = <<>>
    /\ job_queue = <<>>
    /\ joined = 0
    /\ reports = <<>>
    /\ stdout = EmptyBag
    /\ started = {}
    /\ exited = {}
    /\ settings = SettingsOf(<< <<"clang++">> >>)

ScanInitVars ==
    /\ doc = <<>>
    /\ header = ScanInit(ScanPath).header
    /\ codes = <<>>
    /\ buffer = <<>>
    /\ line_start = 0
    /\ in_code_block = FALSE
    /\ in_test_code_block = FALSE
    /\ is_specified_lang = FALSE
    /\ scan_pc = "reading"

ScanSpecInit == ScanInitVars /\ MainIdle

\* main.rs 46-89: the reader yields the next line and the loop body runs
ReadLine ==
    /\ scan_pc = "reading"
    /\ \E line \in Lines :
         LET s == ScanLine(ScanLocals, Len(doc), line)
         IN  /\ InBounds(Append(doc, line))
             /\ doc' = Append(doc, line)
             /\ SetScanLocals(s)
             /\ scan_pc' = IF s.panicked THEN "panicked" ELSE "reading"
    /\ UNCHANGED mainVars

\* main.rs 46-47: File::open(path)? or line? fails
ReadError ==
    /\ scan_pc = "reading"
    /\ scan_pc' = "io_error"
    /\ UNCHANGED <<doc, header, codes, buffer, line_start, in_code_block,
                   in_test_code_block, is_specified_lang>>
    /\ UNCHANGED mainVars

\* EndOfFile that emits the TestCase of a fence left open
EndOfFile_FlushesOpenFence ==
    /\ scan_pc = "reading"
    /\ scan_pc' = "returned"
    /\ codes' = IF in_test_code_block
                THEN Append(codes, NewTestCase(ScanLocals, Len(doc)))
                ELSE codes
    /\ UNCHANGED <<doc, header, buffer, line_start, in_code_block,
                   in_test_code_block, is_specified_lang>>
    /\ UNCHANGED mainVars

\* main.rs 90: the reader is exhausted, Ok(codes)
EndOfFile ==
    /\ scan_pc = "reading"
    /\ scan_pc' = "returned"
    /\ UNCHANGED <<doc, header, codes, buffer, line_start, in_code_block,
                   in_test_code_block, is_specified_lang>>
    /\ UNCHANGED mainVars

ScanNext == ReadLine \/ ReadError \/ EndOfFile

ScanSpec == ScanSpecInit /\ [][ScanNext]_vars

----------------------------------------------------------------------------
(* The fences of the document read so far, by position (1-based in doc;    *)
(* the scanner's line numbers are 0-based: position i is line i - 1).      *)

IsFenceAt(i) == StartsWith(doc[i], Fence)
FencesBefore(i) == Cardinality({j \in 1..(i - 1) : IsFenceAt(j)})
OpensAt(i) == IsFenceAt(i) /\ FencesBefore(i) % 2 = 0
InsideFenceAt(i) == ~IsFenceAt(i) /\ FencesBefore(i) % 2 = 1
OutsideFenceAt(i) == ~IsFenceAt(i) /\ FencesBefore(i) % 2 = 0

\* the positions of the fence lines, ascending
RECURSIVE FencePositions(_)
FencePositions(i) ==
    IF i > Len(doc) THEN <<>>
    ELSE IF IsFenceAt(i) THEN <<i>> \o FencePositions(i + 1)
    ELSE FencePositions(i + 1)

\* <<i, j>>: a fence opened at position i and closed at position j: the fence
\* lines pair up in order, the (2k-1)-th opening what the 2k-th closes
ClosedFences ==
    LET fp == FencePositions(1)
    IN  {<<fp[2 * k - 1], fp[2 * k]>> : k \in 1..(Len(fp) \div 2)}

TaggedAt(i) == StartsWith(doc[i], Fence \o language)
SentinelsIn(f) == {k \in (f[1] + 1)..(f[2] - 1) : doc[k] = dogear}
FirstSentinel(f) == CHOOSE k \in SentinelsIn(f) : \A m \in SentinelsIn(f) : k <= m
Qualifies(f) == TaggedAt(f[1]) /\ SentinelsIn(f) # {}

\* the TestCases whose end is the closing line of fence f
CasesOf(f) == {n \in 1..Len(codes) : codes[n].end = f[2] - 1}

\* str::split('\n')
RECURSIVE SplitLines(_, _)
SplitLines(text, cur) ==
    IF text = <<>> THEN <<cur>>
    ELSE IF Head(text) = "\n" THEN <<cur>> \o SplitLines(Tail(text), <<>>)
    ELSE SplitLines(Tail(text), Append(cur, Head(text)))

BodyLines(tc) == {SplitLines(tc.code, <<>>)[k] : k \in 1..Len(SplitLines(tc.code, <<>>))}

----------------------------------------------------------------------------
(* Claims about read_the_docs, checked under ScanSpec *)

\* C1 (as amended): every closed fence whose opening line starts with the
\* target-language tag and which holds a sentinel line contributes exactly one
\* TestCase; its body is exactly the lines strictly between the FIRST sentinel
\* line and the closing fence line, joined by newlines, and holds neither of
\* the two fence delimiter lines.
C1_BodyFromFirstSentinel ==
    \A f \in ClosedFences :
        Qualifies(f) =>
            /\ Cardinality(CasesOf(f)) = 1
            /\ \A n \in CasesOf(f) :
                  /\ codes[n].code =
                        Join(SubSeq(doc, FirstSentinel(f) + 1, f[2] - 1), <<"\n">>)
                  /\ doc[f[1]] \notin BodyLines(codes[n])
                  /\ doc[f[2]] \notin BodyLines(codes[n])

\* C1 as stated: the same, and moreover no line of the body equals the sentinel.
C1_BodyHasNoSentinelLine ==
    \A f \in ClosedFences :
        Qualifies(f) =>
            /\ Cardinality(CasesOf(f)) = 1
            /\ \A n \in CasesOf(f) :
                  /\ codes[n].code =
                        Join(SubSeq(doc, FirstSentinel(f) + 1, f[2] - 1), <<"\n">>)
                  /\ doc[f[1]] \notin BodyLines(codes[n])
                  /\ doc[f[2]] \notin BodyLines(codes[n])
                  /\ dogear \notin BodyLines(codes[n])

\* C1 witness: a qualifying fence was closed with a body of two lines.
C1_Witness ==
    \E f \in ClosedFences :
        /\ Qualifies(f)
        /\ f[2] - FirstSentinel(f) = 3
        /\ \E n \in CasesOf(f) : Len(codes[n].code) >= 3

\* C2 (as amended): every TestCase's start is the 0-based index of the line
\* that opened its fence (the sentinel line does not override it), and its end
\* is the 0-based index of the closing fence line.
C2_StartIsFenceOpenLine ==
    \A n \in 1..Len(codes) :
        \E f \in ClosedFences :
            /\ Qualifies(f)
            /\ codes[n].start = f[1] - 1
            /\ codes[n].end = f[2] - 1

\* C2 as stated: start is the 0-based index of the sentinel line that started
\* collection, end the 0-based index of the closing fence line.
C2_StartIsSentinelLine ==
    \A n \in 1..Len(codes) :
        \E f \in ClosedFences :
            /\ Qualifies(f)
            /\ codes[n].start = FirstSentinel(f) - 1
            /\ codes[n].end = f[2] - 1

\* C2 witness: a TestCase of a fence whose sentinel is not the line right
\* after the opening line.
C2_Witness ==
    \E f \in ClosedFences :
        /\ Qualifies(f)
        /\ FirstSentinel(f) > f[1] + 1
        /\ CasesOf(f) # {}

\* C3: a TestCase is emitted only for a closed fence whose opening line starts
\* with the target-language tag and which holds a sentinel line; an untagged
\* fence and a tagged fence without sentinel line emit nothing.
C3_OnlyTaggedWithSentinel ==
    /\ \A n \in 1..Len(codes) :
          \E f \in ClosedFences : n \in CasesOf(f) /\ Qualifies(f)
    /\ \A f \in ClosedFences : ~Qualifies(f) => CasesOf(f) = {}

\* C3 witness: an untagged fence holding a sentinel line and a tagged fence
\* without one have both been closed.
C3_Witness ==
    /\ \E f \in ClosedFences : ~TaggedAt(f[1]) /\ SentinelsIn(f) # {}
    /\ \E f \in ClosedFences : TaggedAt(f[1]) /\ SentinelsIn(f) = {}

\* C4: read_the_docs is total on every sequence of lines: it never ends other
\* than by returning or by an I/O error.
C4_ScannerTotal == scan_pc \in {"reading", "returned", "io_error"}

\* the number of leading '#' of a line, and the text after them
HashCount(line) ==
    CHOOSE n \in 0..Len(line) :
        /\ \A m \in 1..n : line[m] = "#"
        /\ n = Len(line) \/ line[n + 1] # "#"
HeadingText(line) == SubSeq(line, HashCount(line) + 1, Len(line))

\* the positions before i of the level-L heading lines outside a fence
HeadingsBefore(L, i) ==
    {k \in 1..(i - 1) : OutsideFenceAt(k) /\ HashCount(doc[k]) = L}
LastHeading(L, i) ==
    IF HeadingsBefore(L, i) = {} THEN <<>>
    ELSE HeadingText(doc[CHOOSE k \in HeadingsBefore(L, i) :
                             \A m \in HeadingsBefore(L, i) : m <= k])

\* C5: the heading context of every TestCase is made, level by level (1..4),
\* of the text of the most recent heading line of exactly that level seen
\* outside a fence before the TestCase's fence, whatever headings of other
\* levels came in between.
C5_HeadingStickyPerLevel ==
    \A n \in 1..Len(codes) :
        codes[n].header =
            FormatHeader([L \in 1..4 |-> LastHeading(L, codes[n].start + 1)])

\* C5 witness: a TestCase emitted after a level-2 heading followed by a
\* level-1 heading; it keeps the text of both.
C5_Witness ==
    /\ Len(doc) >= 2
    /\ doc[1] = H2c /\ doc[2] = H1b
    /\ \E n \in 1..Len(codes) :
          codes[n].header = FormatDebug(<<<<"b">>, <<"c">>>>)

C6_HashLineInFenceStep ==
    (/\ in_code_block
     /\ Len(doc') = Len(doc) + 1
     /\ StartsWith(doc'[Len(doc')], <<"#">>)) => header' = header

C6_HeaderAsAtOpening ==
    \A n \in 1..Len(codes) :
        codes[n].header =
            FormatHeader(ReadTheDocs(ScanPath, SubSeq(doc, 1, codes[n].start + 1)).header)

\* C6: a line that starts with '#' read while inside a fence leaves the four
\* heading slots unchanged, and the heading context of every TestCase is the
\* heading context as it was at its opening fence line.
C6_HeadingsIgnoredInFence ==
    [][C6_HashLineInFenceStep]_vars /\ []C6_HeaderAsAtOpening

\* C6 witness: a TestCase of a fence with a '#' line in it, in the waiting
\* part or in the collected part, after a heading outside.
C6_Witness ==
    \E f \in ClosedFences :
        /\ CasesOf(f) # {}
        /\ \E k \in (f[1] + 1)..(f[2] - 1) : StartsWith(doc[k], <<"#">>)
        /\ \E k \in 1..(f[1] - 1) : StartsWith(doc[k], <<"#">>)

----------------------------------------------------------------------------
(* main and the tasks it spawns *)

\* Settings.compilers
compilers == settings.compilers

\* main.rs 142-145: Path::new(compiler).file_stem(): the last component (the
\* executable names of CompilerLists have no extension to strip)
FileStem(compiler) == compiler[Len(compiler)]

\* Exe without the counter of the test case
Exe_NoCounter(counter, compiler) == <<"WORKSPACE", FileStem(compiler), ".out">>

\* main.rs 139-147: the path of the artifact of a job, inside the workspace;
\* counter is the 0-based index of the test case in its document (271)
Exe(counter, compiler) == <<"WORKSPACE", counter, "-", FileStem(compiler), ".out">>

\* The documents a walk is made of: no test case, one, two.
DocNone == <<H1a, TextLine>>
DocOne == <<H1a, TaggedFenceLine, dogear, TextLine, PlainFenceLine>>
DocTwo == <<TaggedFenceLine, dogear, PlainFenceLine,
            TaggedFenceLine, dogear, TextLine, PlainFenceLine>>
SampleDocs == {DocNone, DocOne, DocTwo}

RECURSIVE CasesIn(_)
CasesIn(w) ==
    IF w = <<>> THEN 0 ELSE Len(ReadTheDocs(0, Head(w)).codes) + CasesIn(Tail(w))

Walks == {w \in UNION {[1..n -> SampleDocs] : n \in 0..MaxDocs} : CasesIn(w) <= MaxCases}

\* main.rs 102-109 and 110-117: Report::from(case, compiler).with_info(info)
Report(case, compiler, info) ==
    [filename |-> case.path,
     line |-> <<case.start, case.end>>,
     compiler |-> compiler,
     info |-> info]

\* main.rs 277: serde_json::to_string(&report), the fields in declaration order
ToJson(report) ==
    <<"filename", report.filename, "line", report.line,
      "compiler", report.compiler, "info", report.info>>

\* main.rs 302: serde_json::from_str(&report)
FromJson(json) ==
    [filename |-> json[2], line |-> json[4], compiler |-> json[6], info |-> json[8]]

\* main.rs 272-273: a task as tokio::spawn leaves it
\*   pc: "start" (not polled yet) | "compile" (awaiting the compiler, 162)
\*       | "run" (awaiting the artifact, 167) | "done"
\*   k: the index in Settings.compilers of the job the task is at
\*   reports: the task's own `reports`
\*   output: what the task returned: <<>> while running, else <<"Ok", Option>>
\*           or <<"Err">>; an Option is <<>> (None) or <<v>> (Some(v))
NewTask == [pc |-> "start", k |-> 1, reports |-> <<>>, output |-> <<>>]

\* main.rs 163, 168, 275: `?` on a spawn error: the task returns Err, its
\* own reports are dropped with it
TaskFails(t) == [t EXCEPT !.pc = "done", !.output = <<"Err">>]

\* main.rs 286-288
TaskReturns(t) ==
    [t EXCEPT !.pc = "done",
              !.output = <<"Ok", IF t.reports # <<>> THEN <<t.reports>> ELSE <<>>>>]

\* main.rs 274-285: after the outcome of job k, the loop goes on to job k + 1:
\* its compiler is spawned (155-162) or cannot be; after the last job the
\* task returns
AfterOutcome(t, spawned) ==
    IF t.k < Len(compilers)
    THEN IF spawned THEN [t EXCEPT !.k = t.k + 1, !.pc = "compile"]
         ELSE TaskFails([t EXCEPT !.k = t.k + 1])
    ELSE TaskReturns(t)

\* PushReport that puts the Failure in front of the task's reports
PushReport_Prepends(t, report) == [t EXCEPT !.reports = <<ToJson(report)>> \o @]

\* PushReport that keeps only the last Failure of the task
PushReport_Overwrites(t, report) == [t EXCEPT !.reports = <<ToJson(report)>>]

\* main.rs 276-280: a Failure outcome is pushed on the task's reports
PushReport(t, report) == [t EXCEPT !.reports = Append(@, ToJson(report))]

\* the processes the step of a task starts
StartsCompile(old, new) == new.pc = "compile" /\ (old.pc # "compile" \/ new.k # old.k)
Started(c, old, new) ==
    (IF StartsCompile(old, new) THEN {<<entry, c, new.k, "compile">>} ELSE {})
    \cup (IF new.pc = "run" /\ old.pc # "run" THEN {<<entry, c, new.k, "run">>} ELSE {})

\* main.rs 169-178: the message of a Success (the elapsed time left out)
Passed(case) == <<"Passed", case.path, case.header, case.start, case.end>>

\* main.rs 278, 282: println! of an outcome: the line printed, and the job
\* and the kind of outcome it is printed for
Printed(c, k, kind, text) ==
    SetToBag({[job |-> <<entry, c, k>>, kind |-> kind, text |-> text]})

Running == main_pc = "join"

\* TaskStart for a task that starts the jobs of all its compilers together
TaskStart_AllCompilers(c) ==
    /\ Running
    /\ job_queue[c].pc = "start"
    /\ job_queue' = [job_queue EXCEPT ![c] = [@ EXCEPT !.pc = "compile"]]
    /\ started' = started \cup {<<entry, c, k, "compile">> : k \in 1..Len(compilers)}
    /\ UNCHANGED <<walk, entry, main_pc, cases, joined, reports, stdout, exited, settings>>
    /\ UNCHANGED scanVars

\* main.rs 139-163: the task is polled for the first time: the compiler of
\* the first job is spawned, or cannot be
TaskStart(c) ==
    /\ Running
    /\ job_queue[c].pc = "start"
    /\ \E spawned \in BOOLEAN :
         LET t == IF spawned THEN [job_queue[c] EXCEPT !.pc = "compile"]
                  ELSE TaskFails(job_queue[c])
         IN  /\ job_queue' = [job_queue EXCEPT ![c] = t]
             /\ started' = started \cup Started(c, job_queue[c], t)
    /\ UNCHANGED <<walk, entry, main_pc, cases, joined, reports, stdout, exited, settings>>
    /\ UNCHANGED scanVars

\* CompileExit without `if compile_output.status.success()`: the artifact is
\* run whatever the compiler's exit status
CompileExit_IgnoresStatus(c) ==
    /\ Running
    /\ job_queue[c].pc = "compile"
    /\ \E success \in BOOLEAN, spawned \in BOOLEAN :
         LET old == job_queue[c]
             t == IF spawned THEN [old EXCEPT !.pc = "run"] ELSE TaskFails(old)
         IN  /\ job_queue' = [job_queue EXCEPT ![c] = t]
             /\ started' = started \cup Started(c, old, t)
             /\ exited' = exited \cup {<<entry, c, old.k, "compile", success>>}
    /\ UNCHANGED <<walk, entry, main_pc, cases, joined, reports, stdout, settings>>
    /\ UNCHANGED scanVars

\* main.rs 162-168 and 185-189: the compiler exits. Non-zero: a Failure with
\* its stderr. Zero: the artifact is spawned, or cannot be.
CompileExit(c) ==
    /\ Running
    /\ job_queue[c].pc = "compile"
    /\ \E success \in BOOLEAN, spawned \in BOOLEAN :
         LET old == job_queue[c]
             err == Report(cases[c], compilers[old.k], "compiler stderr")
             t == IF success
                  THEN IF spawned THEN [old EXCEPT !.pc = "run"] ELSE TaskFails(old)
                  ELSE AfterOutcome(PushReport(old, err), spawned)
         IN  /\ job_queue' = [job_queue EXCEPT ![c] = t]
             /\ started' = started \cup Started(c, old, t)
             /\ exited' = exited \cup {<<entry, c, old.k, "compile", success>>}
             /\ stdout' = IF success THEN stdout
                          ELSE stdout (+) Printed(c, old.k, "Failure", ToJson(err))
    /\ UNCHANGED <<walk, entry, main_pc, cases, joined, reports, settings>>
    /\ UNCHANGED scanVars

\* main.rs 167-184: the artifact exits. Zero: Success. Non-zero: a Failure
\* with its stderr.
RunExit(c) ==
    /\ Running
    /\ job_queue[c].pc = "run"
    /\ \E success \in BOOLEAN, spawned \in BOOLEAN :
         LET old == job_queue[c]
             err == Report(cases[c], compilers[old.k], "test stderr")
             t == IF success THEN AfterOutcome(old, spawned)
                  ELSE AfterOutcome(PushReport(old, err), spawned)
         IN  /\ job_queue' = [job_queue EXCEPT ![c] = t]
             /\ started' = started \cup Started(c, old, t)
             /\ exited' = exited \cup {<<entry, c, old.k, "run", success>>}
             /\ stdout' = stdout (+) (IF success
                                      THEN Printed(c, old.k, "Success", Passed(cases[c]))
                                      ELSE Printed(c, old.k, "Failure", ToJson(err)))
    /\ UNCHANGED <<walk, entry, main_pc, cases, joined, reports, settings>>
    /\ UNCHANGED scanVars

\* MainReadDoc for a main that goes on to the next entry when an entry cannot
\* be read
MainReadDoc_SkipsUnreadable ==
    /\ main_pc = "walk"
    /\ entry <= Len(walk)
    /\ \E readable \in BOOLEAN :
         LET scan == ReadTheDocs(entry, walk[entry])
         IN  IF readable /\ scan.panicked
             THEN /\ main_pc' = "panicked"
                  /\ UNCHANGED <<entry, cases, job_queue, joined>>
             ELSE IF ~readable \/ scan.codes = <<>>
             THEN /\ entry' = entry + 1
                  /\ cases' = <<>>
                  /\ job_queue' = <<>>
                  /\ joined' = 0
                  /\ UNCHANGED main_pc
             ELSE /\ cases' = scan.codes
                  /\ job_queue' = [c \in 1..Len(scan.codes) |-> NewTask]
                  /\ joined' = 0
                  /\ main_pc' = "join"
                  /\ UNCHANGED entry
    /\ UNCHANGED <<walk, reports, stdout, started, exited, settings>>
    /\ UNCHANGED scanVars

\* main.rs 254-291: the next .md entry is read and one task per test case is
\* spawned; a read error makes main return it
MainReadDoc ==
    /\ main_pc = "walk"
    /\ entry <= Len(walk)
    /\ \E readable \in BOOLEAN :
         LET scan == ReadTheDocs(entry, walk[entry])
         IN  IF ~readable
             THEN /\ main_pc' = "err_read"
                  /\ UNCHANGED <<entry, cases, job_queue, joined>>
             ELSE IF scan.panicked
             THEN /\ main_pc' = "panicked"
                  /\ UNCHANGED <<entry, cases, job_queue, joined>>
             ELSE IF scan.codes = <<>>
             THEN /\ entry' = entry + 1
                  /\ cases' = <<>>
                  /\ job_queue' = <<>>
                  /\ joined' = 0
                  /\ UNCHANGED main_pc
             ELSE /\ cases' = scan.codes
                  /\ job_queue' = [c \in 1..Len(scan.codes) |-> NewTask]
                  /\ joined' = 0
                  /\ main_pc' = "join"
                  /\ UNCHANGED entry
    /\ UNCHANGED <<walk, reports, stdout, started, exited, settings>>
    /\ UNCHANGED scanVars

\* main.rs 293: job.await?? on what the task returned
Awaited(output) ==
    IF output[1] = "Err" THEN [ok |-> FALSE, errors |-> <<>>]
    ELSE [ok |-> TRUE, errors |-> IF output[2] = <<>> THEN <<>> ELSE output[2][1]]

\* MainJoin for a main that takes what the next task has collected so far,
\* without waiting for the task to return
MainJoin_NoWait ==
    /\ main_pc = "join"
    /\ joined < Len(job_queue)
    /\ LET task == job_queue[joined + 1]
           got == IF task.pc = "done" THEN Awaited(task.output)
                  ELSE [ok |-> TRUE, errors |-> task.reports]
       IN  IF ~got.ok
           THEN /\ main_pc' = "err_job"
                /\ UNCHANGED <<entry, joined, reports>>
           ELSE /\ reports' = reports \o got.errors
                /\ joined' = joined + 1
                /\ IF joined + 1 = Len(job_queue)
                   THEN entry' = entry + 1 /\ main_pc' = "walk"
                   ELSE UNCHANGED <<entry, main_pc>>
    /\ UNCHANGED <<walk, cases, job_queue, stdout, started, exited, settings>>
    /\ UNCHANGED scanVars

\* main.rs 292-296: the next handle of job_queue is awaited, in order
MainJoin ==
    /\ main_pc = "join"
    /\ joined < Len(job_queue)
    /\ job_queue[joined + 1].pc = "done"
    /\ LET got == Awaited(job_queue[joined + 1].output)
       IN  IF ~got.ok
           THEN /\ main_pc' = "err_job"
                /\ UNCHANGED <<entry, joined, reports>>
           ELSE /\ reports' = reports \o got.errors
                /\ joined' = joined + 1
                /\ IF joined + 1 = Len(job_queue)
                   THEN entry' = entry + 1 /\ main_pc' = "walk"
                   ELSE UNCHANGED <<entry, main_pc>>
    /\ UNCHANGED <<walk, cases, job_queue, stdout, started, exited, settings>>
    /\ UNCHANGED scanVars

\* Verdict without `if !reports.is_empty()`
Verdict_IgnoresReports(reps, removed) == IF removed THEN "ok" ELSE "err_cleanup"

\* main.rs 299-314: the verdict
Verdict(reps, removed) ==
    IF reps # <<>> THEN "bail"
    ELSE IF removed THEN "ok"
    ELSE "err_cleanup"

\* main.rs 299-314: after the walk
MainVerdict ==
    /\ main_pc = "walk"
    /\ entry > Len(walk)
    /\ \E removed \in BOOLEAN : main_pc' = Verdict(reports, removed)
    /\ UNCHANGED <<walk, entry, cases, job_queue, joined, reports, stdout, started,
                   exited, settings>>
    /\ UNCHANGED scanVars

ScanIdle ==
    /\ doc = <<>>
    /\ header = ScanInit(ScanPath).header
    /\ codes = <<>>
    /\ buffer = <<>>
    /\ line_start = 0
    /\ in_code_block = FALSE
    /\ in_test_code_block = FALSE
    /\ is_specified_lang = FALSE
    /\ scan_pc = "idle"

\* main.rs 252-254: the settings are loaded, reports is empty, the walk begins
MainInit ==
    /\ walk \in Walks
    /\ entry = 1
    /\ main_pc = "walk"
    /\ cases = <<>>
    /\ job_queue = <<>>
    /\ joined = 0
    /\ reports = <<>>
    /\ stdout = EmptyBag
    /\ started = {}
    /\ exited = {}
    /\ settings \in {SettingsOf(list) : list \in CompilerLists}
    /\ ScanIdle

MainNext ==
    \/ MainReadDoc
    \/ MainJoin
    \/ MainVerdict
    \/ \E c \in 1..Len(job_queue) : TaskStart(c)
    \/ \E c \in 1..Len(job_queue) : CompileExit(c)
    \/ \E c \in 1..Len(job_queue) : RunExit(c)

MainSpec == MainInit /\ [][MainNext]_vars

\* main has returned (or panicked): the process exits
Returned == main_pc \in {"ok", "bail", "err_read", "err_job", "err_cleanup", "panicked"}

\* the exit code of the process: 0 for Ok(()), 1 for Err, 101 for a panic
ExitCode == IF main_pc = "ok" THEN 0 ELSE IF main_pc = "panicked" THEN 101 ELSE 1

----------------------------------------------------------------------------
(* Claims about main and its tasks, checked under MainSpec *)

\* what read_the_docs returns for each entry of a walk and each document
ScanTable ==
    [e \in 1..MaxDocs |-> [d \in SampleDocs |-> ReadTheDocs(e, d).codes]]

\* the test cases of entry e, as main got them
EntryCases(e) == ScanTable[e][walk[e]]

\* <<e, c>>: the tasks main has spawned so far
SpawnedTasks ==
    {tc \in (1..Len(walk)) \X (1..MaxCases) :
        /\ tc[2] <= Len(EntryCases(tc[1]))
        /\ \/ tc[1] < entry
           \/ tc[1] = entry /\ main_pc \in {"join", "err_job"}}

\* <<e, c, k>>: the (test case, compiler) pairs of the run so far
Jobs == {<<tc[1], tc[2], k>> : tc \in SpawnedTasks, k \in 1..Len(compilers)}

\* the outcomes of the kind that have been printed for job j
OutcomesOf(j, kind) == {p \in BagToSet(stdout) : p.job = j /\ p.kind = kind}

RECURSIVE Copies(_)
Copies(ps) ==
    IF ps = {} THEN 0
    ELSE LET p == CHOOSE q \in ps : TRUE IN CopiesIn(p, stdout) + Copies(ps \ {p})

Outcomes(j, kind) == Copies(OutcomesOf(j, kind))

\* the job's compiler or artifact could not be spawned
SpawnFailed(j) ==
    /\ j[1] = entry
    /\ j[2] <= Len(job_queue)
    /\ job_queue[j[2]].output = <<"Err">>
    /\ job_queue[j[2]].k = j[3]

\* the entries of the aggregate report that are about job j
EntriesOf(j) ==
    {i \in 1..Len(reports) :
        LET r == FromJson(reports[i])
            case == EntryCases(j[1])[j[2]]
        IN  /\ r.filename = case.path
            /\ r.line = <<case.start, case.end>>
            /\ r.compiler = compilers[j[3]]}

\* a process of task c of the current entry is running
InFlight(c) == job_queue[c].pc \in {"compile", "run"}

\* C7: when the run is over, every (test case, compiler) pair has produced
\* exactly one Outcome, Success or Failure, a pair whose compiler or artifact
\* could not be spawned included.
C7_OneOutcomePerJob ==
    Returned =>
        \A j \in Jobs : Outcomes(j, "Success") + Outcomes(j, "Failure") = 1

\* C8: when a job has ended in a spawn error, a compile failure or a runtime
\* failure, the run still reaches its verdict (it does not return a job's
\* error), every other job has its own Outcome, and every failed job has an
\* entry in the aggregate report.
C8_JobFailureNeverAborts ==
    (/\ main_pc \in {"ok", "bail", "err_job", "err_cleanup"}
     /\ \E j \in Jobs : Outcomes(j, "Failure") > 0 \/ SpawnFailed(j))
    => /\ main_pc = "bail"
       /\ \A j \in Jobs :
            /\ SpawnFailed(j) \/ Outcomes(j, "Success") + Outcomes(j, "Failure") = 1
            /\ (SpawnFailed(j) \/ Outcomes(j, "Failure") > 0) => EntriesOf(j) # {}

\* C9: in no state has main returned while a job it spawned is still in flight.
C9_ReturnsAfterAllJobs ==
    Returned => \A c \in 1..Len(job_queue) : ~InFlight(c)

\* C10 (as amended): when the run is over, the success exit code implies an
\* empty aggregate report, and the structured failure report is emitted only
\* for a non-empty aggregate; an empty aggregate with a failure exit code is
\* a run that ended with an error (document read, job spawn, workspace
\* removal).
C10_SuccessOnlyIfReportEmpty ==
    Returned =>
        /\ ExitCode = 0 => reports = <<>>
        /\ main_pc = "bail" => reports # <<>>
        /\ (reports = <<>> /\ ExitCode # 0) =>
               main_pc \in {"err_read", "err_job", "err_cleanup"}

\* C10 as stated: when the run is over, the exit code is the success code if
\* and only if the aggregate report is empty.
C10_ExitZeroIffReportEmpty ==
    Returned => (ExitCode = 0 <=> reports = <<>>)

\* C10 witness: a run over two documents with a Failure and a Success ended
\* with the structured report.
C10_Witness ==
    /\ main_pc = "bail"
    /\ entry = 3
    /\ \E j \in Jobs : Outcomes(j, "Success") = 1
    /\ \E j \in Jobs : Outcomes(j, "Failure") = 1

----------------------------------------------------------------------------
(* Concurrency of the jobs of a document *)

\* job <<entry, c, k>> of the current entry: its compiler or its artifact runs
JobInFlight(c, k) == InFlight(c) /\ job_queue[c].k = k

\* the compile step of job j has been started
CompileStarted(j) == <<j[1], j[2], j[3], "compile">> \in started

----------------------------------------------------------------------------
(* Errors of a document *)

\* C12 (as amended): a read error on a document is fatal for the run: at every
\* entry of the walk the read can fail, and then main returns the error at
\* once: nothing runs after it, no job of that entry or of a later entry is
\* ever started, and no verdict on the aggregate report is reached. The
\* entries before it have been tested, every process started has exited.
C12_ReadErrorEndsRun ==
    /\ (main_pc = "walk" /\ entry <= Len(walk)) =>
           ENABLED (MainNext /\ main_pc' = "err_read")
    /\ main_pc = "err_read" =>
           /\ entry <= Len(walk)
           /\ ~ENABLED MainNext
           /\ \A p \in started :
                  /\ p[1] < entry
                  /\ \E ok \in BOOLEAN : <<p[1], p[2], p[3], p[4], ok>> \in exited

\* C12 as stated: a read error on a document is fatal for that document only:
\* the run goes on with the remaining documents to its verdict, it never ends
\* with the read error.
C12_ReadErrorSkipsDocument ==
    Returned => main_pc # "err_read"

\* C12 witness: the first document has been tested, the second of two
\* documents cannot be read.
C12_Witness ==
    /\ main_pc = "err_read"
    /\ entry = 2
    /\ started # {}
    /\ Len(walk) = 2

----------------------------------------------------------------------------
(* The aggregate report *)

\* main is at or past its verdict on the aggregate report (main.rs 299)
AtVerdict == main_pc \in {"ok", "bail", "err_cleanup"}

\* the Failure outcomes printed so far
Failures == {p \in BagToSet(stdout) : p.kind = "Failure"}

\* C13: when main reaches its verdict on the aggregate report, the report
\* holds exactly the Failure outcomes printed during the run: every printed
\* Failure is in it exactly once, with the path and line range of its test
\* case, its compiler and its diagnostic; every entry is a printed Failure;
\* a job that printed Success has no entry.
C13_ReportIsPrintedFailures ==
    AtVerdict =>
        /\ \A p \in Failures :
              LET r == FromJson(p.text)
                  case == EntryCases(p.job[1])[p.job[2]]
              IN  /\ CopiesIn(p, stdout) = 1
                  /\ Cardinality({i \in 1..Len(reports) : reports[i] = p.text}) = 1
                  /\ EntriesOf(p.job) = {i \in 1..Len(reports) : reports[i] = p.text}
                  /\ r.filename = case.path
                  /\ r.line = <<case.start, case.end>>
                  /\ r.compiler = compilers[p.job[3]]
                  /\ r.info \in {"compiler stderr", "test stderr"}
        /\ \A i \in 1..Len(reports) : \E p \in Failures : p.text = reports[i]
        /\ \A p \in BagToSet(stdout) : p.kind = "Success" => EntriesOf(p.job) = {}

\* C13 witness: the verdict is reached with the two Failures of one test case
\* in the report and a Success printed for another job.
C13_Witness ==
    /\ main_pc = "bail"
    /\ Len(reports) >= 2
    /\ \E p, q \in Failures : p # q /\ p.job[1] = q.job[1] /\ p.job[2] = q.job[2]
    /\ \E p \in BagToSet(stdout) : p.kind = "Success"

----------------------------------------------------------------------------
(* The steps of a job *)

\* C14: the run step of a job is started only after the compile step of the
\* same job has exited with status zero; a job whose compile step exited
\* non-zero has printed one Failure, with the compiler's stderr as its
\* diagnostic, and no Success, and its run step is never started.
C14_RunOnlyAfterCompileOk ==
    /\ \A p \in started :
          p[4] = "run" => <<p[1], p[2], p[3], "compile", TRUE>> \in exited
    /\ \A x \in exited :
          (x[4] = "compile" /\ ~x[5]) =>
              LET j == <<x[1], x[2], x[3]>>
              IN  /\ <<x[1], x[2], x[3], "run">> \notin started
                  /\ Outcomes(j, "Failure") = 1
                  /\ Outcomes(j, "Success") = 0
                  /\ \A o \in OutcomesOf(j, "Failure") :
                         FromJson(o.text).info = "compiler stderr"

\* C14 witness: the compiler of one job has exited non-zero, the artifact of
\* another job has been started and has exited.
C14_Witness ==
    /\ \E x \in exited : x[4] = "compile" /\ ~x[5]
    /\ \E x \in exited : x[4] = "run" /\ <<x[1], x[2], x[3], "compile", TRUE>> \in exited

----------------------------------------------------------------------------
(* When the failures of a document reach the aggregate report *)

\* the tasks of the current entry whose test case the report entry is about
TasksOf(r) ==
    {c \in 1..Len(cases) :
        r.filename = cases[c].path /\ r.line = <<cases[c].start, cases[c].end>>}

\* C15 (as amended): the barrier is per test case, and per document only for
\* the walk: the failures of a test case are in the aggregate report only
\* after main has awaited the task of that test case, all of its jobs
\* completed, whatever the other test cases of the document are doing; and
\* main goes on to the next document (or to the verdict) only when every
\* process started for the documents so far has exited.
C15_TestCaseBarrier ==
    /\ \A i \in 1..Len(reports) :
          LET r == FromJson(reports[i])
          IN  \/ r.filename < entry
              \/ /\ r.filename = entry
                 /\ \A c \in TasksOf(r) : c <= joined /\ job_queue[c].pc = "done"
    /\ main_pc = "walk" =>
          \A p \in started :
              \E ok \in BOOLEAN : <<p[1], p[2], p[3], p[4], ok>> \in exited

\* C15 as stated: in no state does the aggregate report hold a failure of the
\* current document while a job of that document is in flight.
C15_DocumentBarrier ==
    \A c \in 1..Len(job_queue) :
        (Running /\ InFlight(c)) =>
            \A i \in 1..Len(reports) : FromJson(reports[i]).filename # entry

\* C15 witness: the failure of the first test case of a document is in the
\* aggregate report while the second test case of the document is in flight.
C15_Witness ==
    /\ Running
    /\ Len(job_queue) = 2
    /\ joined = 1
    /\ InFlight(2)
    /\ \E i \in 1..Len(reports) : TasksOf(FromJson(reports[i])) = {1}

----------------------------------------------------------------------------
(* Artifact paths *)

\* the path job j = <<e, c, k>> gives its compiler to write the artifact to
ArtifactOf(j) == Exe(j[2] - 1, compilers[j[3]])

\* the jobs whose compile step has been started
CompiledJobs == {<<p[1], p[2], p[3]>> : p \in {q \in started : q[4] = "compile"}}

\* C16 (as amended): no two jobs that are in flight at the same time write
\* the same artifact path, for either compiler list (the compilers sharing a
\* file stem included) and every walk.
C16_ConcurrentArtifactsDistinct ==
    \A c1, c2 \in 1..Len(job_queue), k1, k2 \in 1..Len(compilers) :
        (/\ <<c1, k1>> # <<c2, k2>>
         /\ JobInFlight(c1, k1)
         /\ JobInFlight(c2, k2))
        => ArtifactOf(<<entry, c1, k1>>) # ArtifactOf(<<entry, c2, k2>>)

\* C16 as stated: no two distinct jobs of a run ever write the same artifact
\* path.
C16_ArtifactsDistinct ==
    \A j1, j2 \in CompiledJobs : j1 # j2 => ArtifactOf(j1) # ArtifactOf(j2)

\* C16 witness: with two compilers of one file stem, two jobs of different
\* test cases are in flight together, on a path a job of the document before
\* has written.
C16_Witness ==
    /\ Running
    /\ Len(job_queue) = 2
    /\ InFlight(1)
    /\ InFlight(2)
    /\ Len(compilers) = 2
    /\ FileStem(compilers[1]) = FileStem(compilers[2])
    /\ \E j \in CompiledJobs :
          j[1] < entry /\ ArtifactOf(j) = ArtifactOf(<<entry, 1, job_queue[1].k>>)

----------------------------------------------------------------------------
(* More claims about read_the_docs, checked under ScanSpec *)

\* the position of the fence line that opened the fence still open, 0 if none
UnclosedAt ==
    LET fp == FencePositions(1)
    IN  IF Len(fp) % 2 = 1 THEN fp[Len(fp)] ELSE 0

\* C17: a fence still open at the end of the document, its sentinel seen and
\* body lines collected or not, emits no TestCase, and the scan returns (it
\* can return in every state it reads in) with exactly the TestCases of the
\* fences closed before it, one per qualifying fence.
C17_UnclosedFenceEmitsNothing ==
    /\ (scan_pc = "reading" /\ UnclosedAt > 0) =>
           ENABLED (ScanNext /\ scan_pc' = "returned")
    /\ (scan_pc = "returned" /\ UnclosedAt > 0) =>
           /\ \A n \in 1..Len(codes) : codes[n].end < UnclosedAt - 1
           /\ Len(codes) = Cardinality({f \in ClosedFences : Qualifies(f)})
           /\ \A f \in ClosedFences : Qualifies(f) => Cardinality(CasesOf(f)) = 1

\* C17 witness: the scan has returned the TestCase of a closed fence, with a
\* second fence left open after its sentinel and a body line.
C17_Witness ==
    /\ scan_pc = "returned"
    /\ UnclosedAt > 0
    /\ in_test_code_block
    /\ buffer # <<>>
    /\ Len(codes) = 1

\* C18: after every line processed: in_test_code_block implies in_code_block
\* and is_specified_lang; buffer is non-empty only while in_test_code_block,
\* hence empty after a line that opens a fence; and the body of every TestCase
\* is a run of consecutive lines strictly inside its own fence, up to the
\* line before its closing fence line: no line from outside the fence or
\* from an earlier fence.
C18_ScannerStateInvariant ==
    /\ in_test_code_block => (in_code_block /\ is_specified_lang)
    /\ buffer # <<>> => in_test_code_block
    /\ (doc # <<>> /\ OpensAt(Len(doc))) => buffer = <<>>
    /\ \A n \in 1..Len(codes) :
          /\ OpensAt(codes[n].start + 1)
          /\ <<codes[n].start + 1, codes[n].end + 1>> \in ClosedFences
          /\ \E a \in (codes[n].start + 2)..(codes[n].end + 1) :
                codes[n].code = Join(SubSeq(doc, a, codes[n].end), <<"\n">>)

\* C18 witness: a TestCase with a body has been emitted and the scanner is
\* collecting the body of a later fence.
C18_Witness ==
    /\ scan_pc = "reading"
    /\ Len(codes) = 1
    /\ codes[1].code # <<>>
    /\ in_test_code_block
    /\ buffer # <<>>

----------------------------------------------------------------------------
(* The order of the aggregate report *)

\* the position in Settings.compilers of the compiler of a report entry
CompilerPosition(r) == CHOOSE k \in 1..Len(compilers) : compilers[k] = r.compiler

\* the place of a report entry: the document in walk order, the test case in
\* document order (by its first line), the compiler in list order
Place(r) == <<r.filename, r.line[1], CompilerPosition(r)>>

Before(x, y) ==
    \/ x[1] < y[1]
    \/ x[1] = y[1] /\ x[2] < y[2]
    \/ x[1] = y[1] /\ x[2] = y[2] /\ x[3] < y[3]

\* C19: in every state, whatever the interleaving of the tasks that led to
\* it, the entries of the aggregate report are in the order of their
\* documents in the walk, then of their test cases in the document, then of
\* their compilers in the list (each entry is before the next, and Before is
\* transitive); at the verdict the report is the printed
\* Failures in that order, so it is a function of the outcomes of the jobs.
C19_ReportOrder ==
    /\ \A i \in 1..(Len(reports) - 1) :
          Before(Place(FromJson(reports[i])), Place(FromJson(reports[i + 1])))
    /\ AtVerdict =>
          {reports[i] : i \in 1..Len(reports)} = {p.text : p \in Failures}

\* C19 witness: the report emitted holds failures of two documents, of two
\* test cases of one document and of two compilers of one test case.
C19_Witness ==
    /\ main_pc = "bail"
    /\ \E i, j \in 1..Len(reports) :
          FromJson(reports[i]).filename # FromJson(reports[j]).filename
    /\ \E i, j \in 1..Len(reports) :
          /\ FromJson(reports[i]).filename = FromJson(reports[j]).filename
          /\ FromJson(reports[i]).line # FromJson(reports[j]).line
    /\ \E i, j \in 1..Len(reports) :
          /\ FromJson(reports[i]).filename = FromJson(reports[j]).filename
          /\ FromJson(reports[i]).line = FromJson(reports[j]).line
          /\ i # j

----------------------------------------------------------------------------
(* Termination *)

\* The scheduling of the tokio runtime and of the operating system: main and
\* every task that can take a step eventually takes it, and every process
\* started eventually exits.
MainFairness ==
    /\ WF_vars(MainReadDoc)
    /\ WF_vars(MainJoin)
    /\ WF_vars(MainVerdict)
    /\ \A c \in 1..(MaxCases + 1) :
          /\ WF_vars(c <= Len(job_queue) /\ TaskStart(c))
          /\ WF_vars(c <= Len(job_queue) /\ CompileExit(c))
          /\ WF_vars(c <= Len(job_queue) /\ RunExit(c))

MainFairSpec == MainSpec /\ MainFairness

\* a process that has been started has not exited
Unexited(p) == \A ok \in BOOLEAN : <<p[1], p[2], p[3], p[4], ok>> \notin exited

\* C20, first half: under MainFairSpec main eventually returns: with
\* 'All Tests Passed', with the structured failure report, or with an error.
C20_MainReturns == <>Returned

\* C20, second half: a process that has not exited keeps main from
\* returning: main has returned only when every process started has exited.
C20_UnexitedJobBlocksMain ==
    Returned => \A p \in started : ~Unexited(p)

====
